---- MODULE Spec2Model ----
(***************************************************************************)
(* A model of reedline-repl-rs's Repl (src/src/repl.rs): the line          *)
(* tokenizer of process_line, validate_arguments, handle_command,          *)
(* show_help, construct_help_context and the read/dispatch loop of run,    *)
(* together with the Parameter and Command builders the Repl is fed with.  *)
(*                                                                         *)
(* A Rust String is modelled as a sequence of one-character strings, so    *)
(* that trimming, the token regex and the removal of quote characters are  *)
(* computed character by character.                                        *)
(***************************************************************************)
EXTENDS Integers, Sequences, FiniteSets, TLC

VARIABLES
    param,          \* the Parameter value a builder chain currently holds
    cmd,            \* the Command value a builder chain currently holds
    built,          \* the last builder call: its name, its receiver, its result
    commands,       \* Repl.commands: HashMap<String, Command>
    error_handler,  \* Repl.error_handler
    repl_name,      \* Repl.name
    prompt,         \* Repl.prompt: Box<dyn Display>
    custom_prompt,  \* Repl.custom_prompt
    shown,          \* the prompt run handed to read_line for this cycle
    context,        \* Repl.context
    help_context,   \* Repl.help_context: Option<HelpContext>
    pc,             \* where the host / run() stands
    sig,            \* the Signal read_line returned for this cycle
    tokens,         \* the token vector process_line built for this cycle
    result,         \* what process_line returned for this cycle
    calls,          \* the command callbacks invoked in this cycle
    out             \* what this cycle printed (stdout and stderr)

vars == <<param, cmd, built, commands, error_handler, repl_name, prompt,
          custom_prompt, shown, context, help_context,
          pc, sig, tokens, result, calls, out>>

\* the fields of the Repl its prompt is configured with
promptVars == <<repl_name, prompt, custom_prompt>>

(***************************************************************************)
(* Bounds                                                                  *)
(***************************************************************************)
\* longest parameter list a Command is given
MaxParams == 2
\* most argument tokens after the command name in a line of the run loop
MaxArgs == 3
\* longest line of the character-level tokenizer specification
MaxLineLen == 9

(***************************************************************************)
(* Strings                                                                 *)
(***************************************************************************)
QUOTE == "\""
SP == " "
NL == "\n"
TAB == "\t"

\* char::is_whitespace, as far as the characters used here go
WhiteSpace == {SP, NL, TAB}

IsWhitespace(c) == c \in WhiteSpace

RECURSIVE TrimStart(_)
TrimStart(s) ==
    IF s # <<>> /\ IsWhitespace(Head(s)) THEN TrimStart(Tail(s)) ELSE s

RECURSIVE TrimEnd(_)
TrimEnd(s) ==
    IF s # <<>> /\ IsWhitespace(s[Len(s)])
    THEN TrimEnd(SubSeq(s, 1, Len(s) - 1))
    ELSE s

\* trim forgotten: the line is taken as it was read
trim_forgotten(s) == s

\* str::trim
trim(s) == TrimEnd(TrimStart(s))

\* the first index >= i of s holding a quote or a newline, Len(s)+1 if none:
\* where the greedy [^"\n]+ stops
RECURSIVE QuotedRunEnd(_, _)
QuotedRunEnd(s, i) ==
    IF i > Len(s) \/ s[i] = QUOTE \/ s[i] = NL THEN i ELSE QuotedRunEnd(s, i + 1)

\* the first index >= i of s holding whitespace, Len(s)+1 if none:
\* where the greedy [\S]+ stops
RECURSIVE NonSpaceRunEnd(_, _)
NonSpaceRunEnd(s, i) ==
    IF i > Len(s) \/ IsWhitespace(s[i]) THEN i ELSE NonSpaceRunEnd(s, i + 1)

\* the regex without its quoted alternative: [\S]+ alone
MatchEnd_no_quoted(s, i) ==
    IF ~IsWhitespace(s[i]) THEN NonSpaceRunEnd(s, i) - 1 ELSE 0

\* The regex ("[^"\n]+"|[\S]+) anchored at index i of s: the index of the
\* last character of the match, 0 when there is no match at i.  The first
\* alternative is preferred (leftmost-first); it needs an opening quote, at
\* least one character other than quote and newline, and a closing quote.
MatchEnd(s, i) ==
    LET j == QuotedRunEnd(s, i + 1)
    IN  IF s[i] = QUOTE /\ j > i + 1 /\ j <= Len(s) /\ s[j] = QUOTE
        THEN j
        ELSE IF ~IsWhitespace(s[i]) THEN NonSpaceRunEnd(s, i) - 1 ELSE 0

\* Regex::captures_iter: the successive non-overlapping leftmost matches
RECURSIVE captures_from(_, _)
captures_from(s, i) ==
    IF i > Len(s) THEN <<>>
    ELSE LET e == MatchEnd(s, i)
         IN  IF e = 0 THEN captures_from(s, i + 1)
             ELSE <<SubSeq(s, i, e)>> \o captures_from(s, e + 1)

captures_iter(s) == captures_from(s, 1)

\* str::replace('"', ""): every quote character of the match is removed
replace_quote(s) == SelectSeq(s, LAMBDA c : c # QUOTE)

\* a tokenizer that keeps no token left empty by the removal of its quotes
tokenize_nonempty(trimmed) ==
    LET caps == captures_iter(trimmed)
    IN  SelectSeq([k \in 1..Len(caps) |-> replace_quote(caps[k])],
                  LAMBDA t : t # <<>>)

\* the token vector process_line builds from the trimmed line
tokenize(trimmed) ==
    LET caps == captures_iter(trimmed)
    IN  [k \in 1..Len(caps) |-> replace_quote(caps[k])]

(***************************************************************************)
(* Values                                                                  *)
(***************************************************************************)
None == [some |-> FALSE]
Some(v) == [some |-> TRUE, val |-> v]

Ok(v) == [ok |-> TRUE, val |-> v]
Err(e) == [ok |-> FALSE, err |-> e]
Unit == "()"

\* the variants of crate::error::Error that repl.rs builds or its tests name
TooManyArguments(c, n) == [kind |-> "TooManyArguments", cmd |-> c, max |-> n]
MissingRequiredArgument(c, p) ==
    [kind |-> "MissingRequiredArgument", cmd |-> c, param |-> p]
UnknownCommand(c) == [kind |-> "UnknownCommand", cmd |-> c]
IllegalDefaultError(p) == [kind |-> "IllegalDefaultError", param |-> p]
IllegalRequiredError(p) == [kind |-> "IllegalRequiredError", param |-> p]
\* an error of the host's type E that a command callback returns
HandlerError == [kind |-> "HandlerError"]

\* HashMap::new and HashMap::insert (an existing key's value is replaced)
EmptyMap == [k \in {} |-> None]
insert(m, k, v) == [x \in (DOMAIN m) \cup {k} |-> IF x = k THEN v ELSE m[x]]

\* what one cycle leaves behind: the value process_line returned, the
\* callbacks it invoked, what it printed, the context after it, and whether
\* it panicked inside (an unwrap of None, a drain out of range)
Outcome(r, cs, o, ctx, pan) ==
    [result |-> r, calls |-> cs, out |-> o, context |-> ctx, panicked |-> pan]

Printed(stream, what, arg) == [stream |-> stream, what |-> what, arg |-> arg]

(***************************************************************************)
(* Repl::validate_arguments                                                *)
(***************************************************************************)
\* the loop without its required branch: a required parameter that has no
\* token is passed over like an optional one
RECURSIVE validate_from_no_required(_, _, _, _, _)
validate_from_no_required(command, parameters, args, index, validated) ==
    IF index > Len(parameters) THEN Ok(validated)
    ELSE LET parameter == parameters[index]
         IN  IF index <= Len(args)
             THEN validate_from_no_required(command, parameters, args, index + 1,
                                insert(validated, parameter.name, args[index]))
             ELSE IF parameter.default.some
             THEN validate_from_no_required(command, parameters, args, index + 1,
                                insert(validated, parameter.name,
                                       parameter.default.val))
             ELSE validate_from_no_required(command, parameters, args,
                                            index + 1, validated)

\* the loop with its branches in another order: a parameter that has a
\* default is bound to it whether or not a token was supplied for it
RECURSIVE validate_from_default_wins(_, _, _, _, _)
validate_from_default_wins(command, parameters, args, index, validated) ==
    IF index > Len(parameters) THEN Ok(validated)
    ELSE LET parameter == parameters[index]
         IN  IF parameter.default.some
             THEN validate_from_default_wins(command, parameters, args, index + 1,
                                insert(validated, parameter.name,
                                       parameter.default.val))
             ELSE IF index <= Len(args)
             THEN validate_from_default_wins(command, parameters, args, index + 1,
                                insert(validated, parameter.name, args[index]))
             ELSE IF parameter.required
             THEN Err(MissingRequiredArgument(command, parameter.name))
             ELSE validate_from_default_wins(command, parameters, args,
                                             index + 1, validated)

RECURSIVE validate_from(_, _, _, _, _)
validate_from(command, parameters, args, index, validated) ==
    IF index > Len(parameters) THEN Ok(validated)
    ELSE LET parameter == parameters[index]
         IN  IF index <= Len(args)
             THEN validate_from(command, parameters, args, index + 1,
                                insert(validated, parameter.name, args[index]))
             ELSE IF parameter.required
             THEN Err(MissingRequiredArgument(command, parameter.name))
             ELSE IF parameter.default.some
             THEN validate_from(command, parameters, args, index + 1,
                                insert(validated, parameter.name,
                                       parameter.default.val))
             ELSE validate_from(command, parameters, args, index + 1, validated)

\* the length test off by one: >= for >
validate_arguments_off_by_one(command, parameters, args) ==
    IF Len(args) >= Len(parameters)
    THEN Err(TooManyArguments(command, Len(parameters)))
    ELSE validate_from(command, parameters, args, 1, EmptyMap)

validate_arguments(command, parameters, args) ==
    IF Len(args) > Len(parameters)
    THEN Err(TooManyArguments(command, Len(parameters)))
    ELSE validate_from(command, parameters, args, 1, EmptyMap)

(***************************************************************************)
(* Repl::show_help.  The help viewer is a boxed trait object the host may  *)
(* replace (with_help_viewer): a call of it is recorded as one item of the *)
(* cycle's output, and its return value is any of ViewerReturns, which the *)
(* `?` of show_help passes on.                                             *)
(***************************************************************************)
\* Iterator::find over help_entries: the first entry of that command name
RECURSIVE find_entry(_, _)
find_entry(entries, name) ==
    IF entries = <<>> THEN None
    ELSE IF Head(entries).command = name THEN Some(Head(entries))
    ELSE find_entry(Tail(entries), name)

ViewerError == [kind |-> "HelpViewerError"]

ViewerReturns == {Ok(Unit), Err(ViewerError)}

\* self.help_viewer.help_general(..)? and self.help_viewer.help_command(..)?
view(what, arg) ==
    {Outcome(r, <<>>, <<Printed("help_viewer", what, arg)>>, context, FALSE) :
        r \in ViewerReturns}

\* a help that raises an error for a command it has no entry of
show_help_not_found_fails(args) ==
    IF ~help_context.some
    THEN {Outcome(Err(HandlerError), <<>>, <<>>, context, TRUE)}
    ELSE IF args = <<>>
    THEN view("help_general", help_context.val)
    ELSE LET entry_opt == find_entry(help_context.val.help_entries, args[1])
         IN  IF entry_opt.some
             THEN view("help_command", entry_opt.val)
             ELSE {Outcome(Err(UnknownCommand(args[1])), <<>>, <<>>,
                           context, FALSE)}

show_help(args) ==
    IF ~help_context.some
    THEN \* self.help_context.as_ref().unwrap() panics
         {Outcome(Err(HandlerError), <<>>, <<>>, context, TRUE)}
    ELSE IF args = <<>>
    THEN view("help_general", help_context.val)
    ELSE LET entry_opt == find_entry(help_context.val.help_entries, args[1])
         IN  IF entry_opt.some
             THEN view("help_command", entry_opt.val)
             ELSE {Outcome(Ok(Unit), <<>>,
                           <<Printed("stderr", "help_not_found", args[1])>>,
                           context, FALSE)}

(***************************************************************************)
(* Repl::handle_command and Repl::process_line.  A command callback is     *)
(* code of the host: `returns` are the values it may return and `contexts` *)
(* the contexts it may leave, so both operators yield the set of outcomes  *)
(* the cycle may have.                                                     *)
(***************************************************************************)
help == <<"h", "e", "l", "p">>

\* a dispatcher that drops the value its callback returned
invoke_silent(definition, validated, ret, ctx2) ==
    LET call == [callback |-> definition.callback,
                 command |-> definition.name,
                 args |-> validated,
                 ret |-> ret]
    IN  IF ~ret.ok
        THEN Outcome(Err(ret.err), <<call>>, <<>>, ctx2, FALSE)
        ELSE Outcome(Ok(Unit), <<call>>, <<>>, ctx2, FALSE)

\* match (definition.callback)(validated, &mut self.context) { .. }
invoke(definition, validated, ret, ctx2) ==
    LET call == [callback |-> definition.callback,
                 command |-> definition.name,
                 args |-> validated,
                 ret |-> ret]
    IN  IF ~ret.ok
        THEN Outcome(Err(ret.err), <<call>>, <<>>, ctx2, FALSE)
        ELSE IF ret.val.some
        THEN Outcome(Ok(Unit), <<call>>,
                     <<Printed("stdout", "value", ret.val.val)>>, ctx2, FALSE)
        ELSE Outcome(Ok(Unit), <<call>>, <<>>, ctx2, FALSE)

\* an unknown command passed over in silence
unknown_command_ignored(command) ==
    Outcome(Ok(Unit), <<>>, <<>>, context, FALSE)

\* return Err(Error::UnknownCommand(command.to_string()).into())
unknown_command(command) ==
    Outcome(Err(UnknownCommand(command)), <<>>, <<>>, context, FALSE)

\* a dispatcher that knows the word help before it looks into the registry
handle_command_help_first(command, args, returns, contexts) ==
    IF command = help
    THEN show_help(args)
    ELSE IF command \in DOMAIN commands
    THEN LET definition == commands[command]
             validated == validate_arguments(command, definition.parameters, args)
         IN  IF ~validated.ok
             THEN {Outcome(Err(validated.err), <<>>, <<>>, context, FALSE)}
             ELSE {invoke(definition, validated.val, ret, ctx2) :
                     ret \in returns, ctx2 \in contexts}
    ELSE {unknown_command(command)}

\* a dispatcher that calls the callback of the command it found before it
\* has validated the arguments
handle_command_call_first(command, args, returns, contexts) ==
    IF command \in DOMAIN commands
    THEN LET definition == commands[command]
             validated == validate_arguments(command, definition.parameters, args)
         IN  IF ~validated.ok
             THEN {Outcome(Err(validated.err),
                           <<[callback |-> definition.callback,
                              command |-> definition.name,
                              args |-> EmptyMap,
                              ret |-> ret]>>,
                           <<>>, ctx2, FALSE) :
                     ret \in returns, ctx2 \in contexts}
             ELSE {invoke(definition, validated.val, ret, ctx2) :
                     ret \in returns, ctx2 \in contexts}
    ELSE IF command = help
    THEN show_help(args)
    ELSE {unknown_command(command)}

handle_command(command, args, returns, contexts) ==
    IF command \in DOMAIN commands
    THEN LET definition == commands[command]
             validated == validate_arguments(command, definition.parameters, args)
         IN  IF ~validated.ok
             THEN {Outcome(Err(validated.err), <<>>, <<>>, context, FALSE)}
             ELSE {invoke(definition, validated.val, ret, ctx2) :
                     ret \in returns, ctx2 \in contexts}
    ELSE IF command = help
    THEN show_help(args)
    ELSE {unknown_command(command)}

\* a cycle of process_line: the token vector it built and how it ended
Cycle(args, o) == [tokens |-> args, outcome |-> o]

process_line(line, returns, contexts) ==
    LET trimmed == trim(line)
    IN  IF trimmed # <<>>
        THEN LET args == tokenize(trimmed)
             IN  IF args = <<>>
                 THEN \* args.drain(..1) on an empty vector panics
                      {Cycle(args, Outcome(Err(HandlerError), <<>>, <<>>,
                                           context, TRUE))}
                 ELSE {Cycle(args, o) :
                         o \in handle_command(Head(args), Tail(args),
                                              returns, contexts)}
        ELSE {Cycle(<<>>, Outcome(Ok(Unit), <<>>, <<>>, context, FALSE))}

(***************************************************************************)
(* Repl::construct_help_context                                            *)
(***************************************************************************)
\* the characters used here, in ascending order of their code points
Alphabet ==
    <<TAB, NL, SP, QUOTE, "Z", "a", "b", "c", "d", "e", "f", "h", "l", "n",
      "o", "p", "z">>

CharCode(c) == CHOOSE i \in 1..Len(Alphabet) : Alphabet[i] = c

\* Ord for String: s <= t, byte by byte, a proper prefix first
RECURSIVE StrLe(_, _)
StrLe(s, t) ==
    IF s = <<>> THEN TRUE
    ELSE IF t = <<>> THEN FALSE
    ELSE IF Head(s) = Head(t) THEN StrLe(Tail(s), Tail(t))
    ELSE CharCode(Head(s)) < CharCode(Head(t))

\* HelpEntry::new(&definition.name, &definition.parameters, ..)
HelpEntry(definition) ==
    [command |-> definition.name, parameters |-> definition.parameters]

\* e put into the sorted sequence, after every entry whose key is <= its own
RECURSIVE insert_sorted(_, _)
insert_sorted(sorted, e) ==
    IF sorted = <<>> THEN <<e>>
    ELSE IF StrLe(Head(sorted).command, e.command)
    THEN <<Head(sorted)>> \o insert_sorted(Tail(sorted), e)
    ELSE <<e>> \o sorted

\* the entries left in the order the HashMap yielded them
sort_by_key_unsorted(entries) == entries

\* slice::sort_by_key(|d| d.command.clone()): a stable sort by command name
RECURSIVE sort_by_key(_)
sort_by_key(entries) ==
    IF entries = <<>> THEN <<>>
    ELSE insert_sorted(sort_by_key(SubSeq(entries, 1, Len(entries) - 1)),
                       entries[Len(entries)])

\* the orders in which HashMap::iter may yield the keys of m
IterOrders(m) ==
    {o \in [1..Cardinality(DOMAIN m) -> DOMAIN m] :
        \A i, j \in DOMAIN o : i # j => o[i] # o[j]}

\* a run that does not build the help context: it stays as it was
construct_help_context_skipped(order) == help_context

\* order: the order in which self.commands.iter() yields the commands
construct_help_context(order) ==
    Some([help_entries |->
            sort_by_key([i \in DOMAIN order |-> HelpEntry(commands[order[i]])])])

(***************************************************************************)
(* Parameter and Command (crate::parameter, crate::command): their source  *)
(* is not part of src/, so the builders follow the specification's         *)
(* sections 4.2 and 4.3.                                                   *)
(***************************************************************************)
Parameter_new(name) == [name |-> name, required |-> FALSE, default |-> None]

set_required(p, required) ==
    IF required /\ p.default.some
    THEN Err(IllegalDefaultError(p.name))
    ELSE Ok([p EXCEPT !.required = required])

\* set_default without its test of required
set_default_unchecked(p, v) == Ok([p EXCEPT !.default = Some(v)])

set_default(p, v) ==
    IF p.required
    THEN Err(IllegalDefaultError(p.name))
    ELSE Ok([p EXCEPT !.default = Some(v)])

Command_new(name, callback) ==
    [name |-> name, parameters |-> <<>>, callback |-> callback]

\* with_parameter without its test of the earlier parameters
with_parameter_unchecked(c, p) == Ok([c EXCEPT !.parameters = Append(@, p)])

with_parameter(c, p) ==
    IF p.required /\ \E i \in DOMAIN c.parameters : ~c.parameters[i].required
    THEN Err(IllegalRequiredError(p.name))
    ELSE Ok([c EXCEPT !.parameters = Append(@, p)])

(***************************************************************************)
(* The inputs the host and the line source are given                       *)
(***************************************************************************)
foo == <<"f", "o", "o">>
zed == <<"z", "e", "d">>
nop == <<"n", "o", "p">>

ParamNames == {"bar", "baz"}
Defaults == {<<"d">>}
Callbacks == {"cb1", "cb2"}
ErrorHandlers == {"default_error_handler", "test_error_handler"}
ContextValues == {"ctx0", "ctx1"}

\* what a command callback may return: Ok(Some(text)), Ok(None) or Err(e)
CallbackReturns == {Ok(Some("text")), Ok(None), Err(HandlerError)}

\* the Parameter values the builders can produce
Parameters ==
    {p \in [name : ParamNames, required : BOOLEAN,
            default : {None} \cup {Some(d) : d \in Defaults}] :
        ~(p.required /\ p.default.some)}

\* the parameter lists with_parameter can produce: no required parameter
\* after one that is not required
ParamLists ==
    {ps \in UNION {[1..n -> Parameters] : n \in 0..MaxParams} :
        \A i, j \in DOMAIN ps : i < j /\ ~ps[i].required => ~ps[j].required}

\* the commands registered in the run-loop specification: foo with every
\* parameter list, help and zed without parameters, zed with either callback
Commands ==
    {[name |-> foo, parameters |-> ps, callback |-> "cb1"] : ps \in ParamLists}
    \cup {[name |-> help, parameters |-> <<>>, callback |-> "cb1"]}
    \cup {[name |-> zed, parameters |-> <<>>, callback |-> cb] : cb \in Callbacks}

Letters == <<"a", "b", "c", "d", "e">>

\* the i-th argument word of a line: one letter, a different one per place
ArgWord(i) == <<Letters[i]>>

ArgSeqs ==
    {[i \in 1..k |-> ArgWord(i)] : k \in 0..MaxArgs} \cup {<<foo>>}

\* words joined by single spaces
RECURSIVE JoinWords(_)
JoinWords(ws) ==
    IF ws = <<>> THEN <<>>
    ELSE IF Len(ws) = 1 THEN ws[1]
    ELSE ws[1] \o <<SP>> \o JoinWords(Tail(ws))

BlankLines == {<<>>, <<SP>>, <<TAB, SP, NL>>}

\* the lines read_line yields in the run-loop specification
Lines ==
    BlankLines
    \cup {JoinWords(<<w>> \o as) : w \in {foo, help, zed, nop}, as \in ArgSeqs}

Success(line) == [kind |-> "Success", line |-> line]
CtrlC == [kind |-> "CtrlC"]
CtrlD == [kind |-> "CtrlD"]
NoSignal == [kind |-> "None"]

Signals == {Success(l) : l \in Lines} \cup {CtrlC, CtrlD}

(***************************************************************************)
(* The builder chains of the host                                          *)
(***************************************************************************)
Built(op, recv, arg, res) == [op |-> op, recv |-> recv, arg |-> arg, res |-> res]

ParameterNew ==
    /\ pc = "Config"
    /\ \E n \in ParamNames :
        /\ param' = Some(Parameter_new(n))
        /\ built' = Built("Parameter::new", None, n, Ok(Parameter_new(n)))
    /\ UNCHANGED <<promptVars, shown,
                   cmd, commands, error_handler, context, help_context, pc,
                   sig, tokens, result, calls, out>>

SetRequired ==
    /\ pc = "Config"
    /\ param.some
    /\ \E b \in BOOLEAN :
        LET r == set_required(param.val, b)
        IN  /\ param' = IF r.ok THEN Some(r.val) ELSE None
            /\ built' = Built("set_required", param.val, b, r)
    /\ UNCHANGED <<promptVars, shown,
                   cmd, commands, error_handler, context, help_context, pc,
                   sig, tokens, result, calls, out>>

SetDefault ==
    /\ pc = "Config"
    /\ param.some
    /\ \E v \in Defaults :
        LET r == set_default(param.val, v)
        IN  /\ param' = IF r.ok THEN Some(r.val) ELSE None
            /\ built' = Built("set_default", param.val, v, r)
    /\ UNCHANGED <<promptVars, shown,
                   cmd, commands, error_handler, context, help_context, pc,
                   sig, tokens, result, calls, out>>

CommandNew ==
    /\ pc = "Config"
    /\ cmd' = Some(Command_new(foo, "cb1"))
    /\ built' = Built("Command::new", None, foo, Ok(Command_new(foo, "cb1")))
    /\ UNCHANGED <<promptVars, shown,
                   param, commands, error_handler, context, help_context, pc,
                   sig, tokens, result, calls, out>>

\* the Parameter is moved into the call; on an error the Command is lost too
WithParameter ==
    /\ pc = "Config"
    /\ cmd.some
    /\ param.some
    /\ Len(cmd.val.parameters) < MaxParams
    /\ LET r == with_parameter(cmd.val, param.val)
       IN  /\ cmd' = IF r.ok THEN Some(r.val) ELSE None
           /\ built' = Built("with_parameter", cmd.val, param.val, r)
    /\ param' = None
    /\ UNCHANGED <<promptVars, shown,
                   commands, error_handler, context, help_context, pc,
                   sig, tokens, result, calls, out>>

(***************************************************************************)
(* The configuration of the Repl                                           *)
(***************************************************************************)
\* Repl::with_error_handler
\* Paint::green(format!("{}> ", name)).bold()
green_bold(n) == [style |-> "green bold", text |-> <<n, "> ">>]

\* Box::new(prompt) of a Display value of the host
custom(p) == [style |-> "host", text |-> <<p>>]

\* SimplePrompt::new(s)
SimplePrompt_new(s) == [style |-> "SimplePrompt", text |-> <<s>>]

Names == {"repl", "MyApp"}

Prompts == {"$ "}

WithName ==
    /\ pc = "Config"
    /\ \E n \in Names :
        /\ repl_name' = n
        /\ prompt' = IF ~custom_prompt THEN green_bold(n) ELSE prompt
    /\ UNCHANGED <<custom_prompt, shown, param, cmd, built, commands,
                   error_handler, context, help_context, pc,
                   sig, tokens, result, calls, out>>

WithPrompt ==
    /\ pc = "Config"
    /\ \E p \in Prompts : prompt' = custom(p)
    /\ custom_prompt' = TRUE
    /\ UNCHANGED <<repl_name, shown, param, cmd, built, commands,
                   error_handler, context, help_context, pc,
                   sig, tokens, result, calls, out>>

WithErrorHandler ==
    /\ pc = "Config"
    /\ \E h \in ErrorHandlers : error_handler' = h
    /\ UNCHANGED <<promptVars, shown,
                   param, cmd, built, commands, context, help_context, pc,
                   sig, tokens, result, calls, out>>

\* a registry that keeps what a name was first registered with
add_command_keep_first(command) ==
    IF command.name \in DOMAIN commands
    THEN commands
    ELSE insert(commands, command.name, command)

\* self.commands.insert(command.name.clone(), command)
add_command(command) == insert(commands, command.name, command)

\* what the registry holds under a name
get(n) == IF n \in DOMAIN commands THEN Some(commands[n]) ELSE None

\* the callback of what the registry holds under a name
held_callback(n) ==
    IF get(n).some THEN Some(get(n).val.callback) ELSE None

\* the host registers one of cmds; the call is noted with the callback the
\* name held before it
AddCommand(cmds) ==
    /\ pc = "Config"
    /\ \E c \in cmds :
        /\ commands' = add_command(c)
        /\ built' = Built("add_command", held_callback(c.name), c, Ok(Unit))
    /\ UNCHANGED <<promptVars, shown, param, cmd, error_handler, context,
                   help_context, pc, sig, tokens, result, calls, out>>

(***************************************************************************)
(* Repl::run                                                               *)
(***************************************************************************)
\* run up to the loop: the help context is built from the registry; the
\* builder chain of the host has ended
Run ==
    /\ pc = "Config"
    /\ \E order \in IterOrders(commands) :
        help_context' = construct_help_context(order)
    /\ built' = Built("none", None, None, None)
    /\ pc' = "Idle"
    /\ UNCHANGED <<promptVars, shown, param, cmd, commands, error_handler,
                   context, sig, tokens, result, calls, out>>

\* the top of the loop: read_line(&prompt) is called and waits; what the
\* last cycle held is gone
Prompt ==
    /\ pc = "Idle"
    /\ pc' = "Reading"
    /\ sig' = NoSignal
    /\ tokens' = <<>>
    /\ result' = None
    /\ calls' = <<>>
    /\ out' = <<>>
    /\ shown' = Some(SimplePrompt_new("repl"))
    /\ UNCHANGED <<promptVars, param, cmd, built, commands, error_handler,
                   context, help_context>>

\* read_line returns Ok(signal)
ReadLine(signals) ==
    /\ pc = "Reading"
    /\ \E s \in signals : sig' = s
    /\ pc' = "Dispatching"
    /\ UNCHANGED <<promptVars, shown,
                   param, cmd, built, commands, error_handler, context,
                   help_context, tokens, result, calls, out>>

\* read_line returns Err: line_editor.read_line(&prompt).unwrap() panics
ReadLineError ==
    /\ pc = "Reading"
    /\ sig' = [kind |-> "Err"]
    /\ pc' = "Panicked"
    /\ UNCHANGED <<promptVars, shown,
                   param, cmd, built, commands, error_handler, context,
                   help_context, tokens, result, calls, out>>

\* what the loop does with the value of process_line(line): .unwrap()
unwrap(o) == IF o.panicked \/ ~o.result.ok THEN "Panicked" ELSE "Idle"

\* Signal::Success(line) => self.process_line(line).unwrap()
DispatchLine(returns, contexts) ==
    /\ pc = "Dispatching"
    /\ sig.kind = "Success"
    /\ \E c \in process_line(sig.line, returns, contexts) :
        /\ tokens' = c.tokens
        /\ result' = IF c.outcome.panicked THEN None ELSE Some(c.outcome.result)
        /\ calls' = c.outcome.calls
        /\ out' = c.outcome.out
        /\ context' = c.outcome.context
        /\ pc' = unwrap(c.outcome)
    /\ UNCHANGED <<promptVars, shown,
                   param, cmd, built, commands, error_handler, help_context, sig>>

\* Signal::CtrlD | Signal::CtrlC => break, and run returns Ok(())
\* a loop that prints its farewell and goes on reading
DispatchQuit_continue ==
    /\ pc = "Dispatching"
    /\ sig.kind \in {"CtrlC", "CtrlD"}
    /\ out' = <<Printed("stdout", "quitting", Unit)>>
    /\ pc' = "Idle"
    /\ UNCHANGED <<promptVars, shown, param, cmd, built, commands,
                   error_handler, context, help_context, sig, tokens,
                   result, calls>>

DispatchQuit ==
    /\ pc = "Dispatching"
    /\ sig.kind \in {"CtrlC", "CtrlD"}
    /\ out' = <<Printed("stdout", "quitting", Unit)>>
    /\ pc' = "Quit"
    /\ UNCHANGED <<promptVars, shown,
                   param, cmd, built, commands, error_handler, context,
                   help_context, sig, tokens, result, calls>>

(***************************************************************************)
(* Specifications                                                          *)
(***************************************************************************)
\* Repl::new
Init ==
    /\ param = None
    /\ cmd = None
    /\ built = Built("none", None, None, None)
    /\ commands = EmptyMap
    /\ error_handler = "default_error_handler"
    /\ repl_name = ""
    /\ prompt = green_bold("")
    /\ custom_prompt = FALSE
    /\ shown = None
    /\ context = "ctx0"
    /\ help_context = None
    /\ pc = "Config"
    /\ sig = NoSignal
    /\ tokens = <<>>
    /\ result = None
    /\ calls = <<>>
    /\ out = <<>>

\* the Repl: configuration, then the read/dispatch loop of run
Next ==
    \/ WithErrorHandler
    \/ AddCommand(Commands)
    \/ Run
    \/ Prompt
    \/ ReadLine(Signals)
    \/ ReadLineError
    \/ DispatchLine(CallbackReturns, ContextValues)
    \/ DispatchQuit

Spec == Init /\ [][Next]_vars

\* the builder chains alone
NextBuild ==
    \/ ParameterNew
    \/ SetRequired
    \/ SetDefault
    \/ CommandNew
    \/ WithParameter

SpecBuild == Init /\ [][NextBuild]_vars

(***************************************************************************)
(* The help specification: commands without parameters are registered, in  *)
(* any order, under names that differ in case and names that are prefixes  *)
(* of one another, and run builds the help context.                        *)
(***************************************************************************)
fo == <<"f", "o">>

Zed == <<"Z", "e", "d">>

HelpNames == {fo, foo, zed, Zed, help}

HelpCommands ==
    {[name |-> n, parameters |-> <<>>, callback |-> "cb1"] : n \in HelpNames}

NextHelp ==
    \/ AddCommand(HelpCommands)
    \/ Run

SpecHelp == Init /\ [][NextHelp]_vars

(***************************************************************************)
(* The loop specification: a Repl that is given a name and a prompt and    *)
(* one command, and whose loop reads a few lines and the two signals that  *)
(* end it.  The arm of CtrlC and CtrlD is a step of run itself, which run  *)
(* takes once read_line has returned: it is weakly fair.                   *)
(***************************************************************************)
LoopCommands == {[name |-> zed, parameters |-> <<>>, callback |-> "cb1"]}

LoopSignals == {Success(l) : l \in {<<>>, zed, help, nop}} \cup {CtrlC, CtrlD}

NextLoop ==
    \/ WithName
    \/ WithPrompt
    \/ AddCommand(LoopCommands)
    \/ Run
    \/ Prompt
    \/ ReadLine(LoopSignals)
    \/ ReadLineError
    \/ DispatchLine(CallbackReturns, ContextValues)
    \/ DispatchQuit

SpecLoop == Init /\ [][NextLoop]_vars /\ WF_vars(DispatchQuit)

(***************************************************************************)
(* The tokenizer specification: the loop of a Repl that holds the command  *)
(* of the tests (two required parameters, bar and baz), under the names    *)
(* foo and f, fed with every line of up to MaxLineLen characters.          *)
(***************************************************************************)
f == <<"f">>

TokChars == {"f", SP, QUOTE}

\* the lines of the tests at src/src/repl.rs:477 and :495, in short, and
\* lines with a newline or a tab inside and outside quotes
SampleLines ==
    {foo \o <<SP, QUOTE, "b", SP, "c", SP, "1", QUOTE, SP>> \o foo,
     foo \o <<SP>> \o foo \o <<SP, QUOTE, "b", SP, "c", SP, "1", QUOTE>>,
     <<"f", SP, QUOTE, "f", NL, "f", QUOTE, SP, "f">>,
     <<"f", TAB, QUOTE, "f", TAB, "f", QUOTE, NL, "f">>,
     <<"f", SP, QUOTE, "f", SP, SP, "f", QUOTE, SP, SP, "f", SP>>}

TokLines ==
    UNION {[1..n -> TokChars] : n \in 0..MaxLineLen} \cup SampleLines

TokSignals == {Success(l) : l \in TokLines}

Required(name) == [name |-> name, required |-> TRUE, default |-> None]

\* Repl::new(()).add_command(Command::new(.., foo).with_parameter(bar)
\* .with_parameter(baz)), as at src/src/repl.rs:466-476
TestCommand(name) ==
    [name |-> name, parameters |-> <<Required("bar"), Required("baz")>>,
     callback |-> "cb1"]

TestCommands == insert(insert(EmptyMap, foo, TestCommand(foo)), f, TestCommand(f))

\* the state of that Repl when run enters its loop
InitTok ==
    /\ param = None
    /\ cmd = None
    /\ built = Built("none", None, None, None)
    /\ commands = TestCommands
    /\ error_handler \in ErrorHandlers
    /\ repl_name = ""
    /\ prompt = green_bold("")
    /\ custom_prompt = FALSE
    /\ shown = None
    /\ context = "ctx0"
    /\ help_context =
         Some([help_entries |-> <<HelpEntry(TestCommand(f)),
                                  HelpEntry(TestCommand(foo))>>])
    /\ pc = "Idle"
    /\ sig = NoSignal
    /\ tokens = <<>>
    /\ result = None
    /\ calls = <<>>
    /\ out = <<>>

NextTok ==
    \/ Prompt
    \/ ReadLine(TokSignals)
    \/ DispatchLine(CallbackReturns, ContextValues)

SpecTok == InitTok /\ [][NextTok]_vars

(***************************************************************************)
(* The error handlers: default_error_handler prints the error and returns  *)
(* Ok(()), test_error_handler returns the error.                           *)
(***************************************************************************)
ErrorHandlerReturn(handler, error) ==
    IF handler = "default_error_handler" THEN Ok(Unit) ELSE Err(error)

(***************************************************************************)
(* Properties                                                              *)
(***************************************************************************)
\* the cycle of a line has ended: the loop is back at its top or has panicked
Dispatched == sig.kind = "Success" /\ pc \in {"Idle", "Panicked"}

\* the cycle ended in a runtime error
Failed == Dispatched /\ result.some /\ ~result.val.ok

\* the cycle resolved its first token to a registered command
Resolved == Dispatched /\ tokens # <<>> /\ tokens[1] \in DOMAIN commands

\* the declared parameters of the resolved command, the number of argument
\* tokens, and the required parameters that have no token
DeclaredParams == commands[tokens[1]].parameters
NumArgs == Len(tokens) - 1
MissingRequired ==
    {i \in (NumArgs + 1)..Len(DeclaredParams) : DeclaredParams[i].required}
FirstMissing == CHOOSE i \in MissingRequired : \A j \in MissingRequired : i <= j

\* C1 (as claimed): with the default error handler installed, a cycle that
\* ends in a runtime error does not end the loop: the error is printed and
\* the loop is back at Idle, ready for the next line.
C1_ErrorDoesNotEndLoop ==
    (Failed /\ error_handler = "default_error_handler")
        => /\ pc = "Idle"
           /\ \E i \in DOMAIN out : out[i].stream = "stderr"

\* what the cycle yields to the loop: the error the loop panics with, or Ok
CycleYield == IF pc = "Panicked" THEN result.val ELSE Ok(Unit)

\* C2 (as claimed): a runtime error of a cycle goes through the installed
\* error handler, and the cycle yields what that handler returns.
C2_CycleYieldsHandlerReturn ==
    Failed => CycleYield = ErrorHandlerReturn(error_handler, result.val.err)

\* C3: when a registered command gets k <= n argument tokens and a required
\* parameter has no token, the cycle fails with MissingRequiredArgument
\* naming the command and the first such parameter, and no callback runs.
C3_MissingRequiredArgument ==
    (Resolved /\ NumArgs <= Len(DeclaredParams) /\ MissingRequired # {})
        => /\ result = Some(Err(MissingRequiredArgument(
                                    tokens[1], DeclaredParams[FirstMissing].name)))
           /\ calls = <<>>

\* two required parameters of different names are missing, the first is named
C3_Witness ==
    /\ Resolved
    /\ NumArgs <= Len(DeclaredParams)
    /\ \E i, j \in MissingRequired :
        i < j /\ DeclaredParams[i].name # DeclaredParams[j].name
    /\ result = Some(Err(MissingRequiredArgument(
                             tokens[1], DeclaredParams[FirstMissing].name)))

\* C4: a registered command's cycle fails with TooManyArguments(name, n)
\* exactly when it got more argument tokens than the n declared parameters,
\* and then no callback runs.
C4_TooManyArguments ==
    Resolved
        => /\ (result = Some(Err(TooManyArguments(tokens[1], Len(DeclaredParams))))
                <=> NumArgs > Len(DeclaredParams))
           /\ (NumArgs > Len(DeclaredParams) => calls = <<>>)

\* a command with parameters got one token too many
C4_Witness ==
    /\ Resolved
    /\ Len(DeclaredParams) >= 1
    /\ NumArgs = Len(DeclaredParams) + 1
    /\ result = Some(Err(TooManyArguments(tokens[1], Len(DeclaredParams))))
    /\ calls = <<>>

\* C5: a line whose first token is no registered command and not help fails
\* with UnknownCommand carrying that token, whatever follows it, and no
\* callback runs.
C5_UnknownCommand ==
    (Dispatched /\ tokens # <<>> /\ tokens[1] \notin DOMAIN commands
                /\ tokens[1] # help)
        => /\ result = Some(Err(UnknownCommand(tokens[1])))
           /\ calls = <<>>

\* an unknown first token followed by arguments, in a Repl that has commands
C5_Witness ==
    /\ Dispatched
    /\ Len(tokens) > 1
    /\ commands # EmptyMap
    /\ tokens[1] \notin DOMAIN commands
    /\ result = Some(Err(UnknownCommand(tokens[1])))

\* every character of the line is whitespace
IsBlank(line) == \A i \in DOMAIN line : line[i] \in WhiteSpace

\* C6: an empty or whitespace-only line is a no-op: the cycle succeeds, no
\* token is looked up, nothing is printed and no callback runs.
C6_BlankLineIsNoOp ==
    (Dispatched /\ IsBlank(sig.line))
        => /\ pc = "Idle"
           /\ result = Some(Ok(Unit))
           /\ tokens = <<>>
           /\ calls = <<>>
           /\ out = <<>>

\* a line of whitespace dispatched in a Repl that has commands
C6_Witness ==
    /\ Dispatched
    /\ sig.line # <<>>
    /\ IsBlank(sig.line)
    /\ commands # EmptyMap
    /\ result = Some(Ok(Unit))

\* a double-quoted span
Quoted(q) == <<QUOTE>> \o q \o <<QUOTE>>

\* contents of a quoted span that hold a space, and words without quotes
SpacedContents ==
    {q \in UNION {[1..n -> {"f", SP}] : n \in 1..(MaxLineLen - 6)} :
        \E i \in DOMAIN q : q[i] = SP}
PlainWords == {[i \in 1..n |-> "f"] : n \in 1..(MaxLineLen - 6)}

\* the bound mapping of a command with the parameters bar and baz
BarBaz(x, y) == [n \in {"bar", "baz"} |-> IF n = "bar" THEN x ELSE y]

\* lines of a command name, one quoted multi-word argument and one plain
\* argument, in either order, with the mapping they are to be bound to;
\* the last two are the lines of the tests, in short
QuotedCases ==
    {[line |-> f \o <<SP>> \o Quoted(q) \o <<SP>> \o w, name |-> f,
      args |-> BarBaz(q, w)] : q \in SpacedContents, w \in PlainWords}
    \cup {[line |-> f \o <<SP>> \o w \o <<SP>> \o Quoted(q), name |-> f,
           args |-> BarBaz(w, q)] : q \in SpacedContents, w \in PlainWords}
    \cup {[line |-> foo \o <<SP, QUOTE, "b", SP, "c", SP, "1", QUOTE, SP>> \o foo,
           name |-> foo, args |-> BarBaz(<<"b", SP, "c", SP, "1">>, foo)],
          [line |-> foo \o <<SP>> \o foo \o <<SP, QUOTE, "b", SP, "c", SP, "1", QUOTE>>,
           name |-> foo, args |-> BarBaz(foo, <<"b", SP, "c", SP, "1">>)]}

\* C7: a well-formed quoted span with spaces is one argument, in the middle
\* or at the end: a command with two required parameters accepts the line,
\* and its callback gets the span without its quotes, its spaces kept.
C7_QuotedSpanIsOneArgument ==
    \A c \in QuotedCases :
        (Dispatched /\ sig.line = c.line)
            => /\ Len(tokens) = 3
               /\ Len(calls) = 1
               /\ calls[1].callback = "cb1"
               /\ calls[1].command = c.name
               /\ calls[1].args = c.args
               /\ result \in {Some(Ok(Unit)), Some(Err(HandlerError))}

\* a line whose last argument is a quoted span with a space went through
C7_Witness ==
    /\ Dispatched
    /\ \E c \in QuotedCases :
        /\ sig.line = c.line
        /\ \E i \in DOMAIN c.args["baz"] : c.args["baz"][i] = SP
        /\ Len(calls) = 1
        /\ calls[1].args = c.args
    /\ result = Some(Ok(Unit))

\* a match of the regex in its quoted form: two enclosing quotes around
\* characters that are neither quote nor newline
IsQuotedForm(m) ==
    /\ Len(m) >= 3
    /\ m[1] = QUOTE
    /\ m[Len(m)] = QUOTE
    /\ \A i \in 2..(Len(m) - 1) : m[i] # QUOTE /\ m[i] # NL

\* the tokens as the claim has them: a quoted span loses its two enclosing
\* quotes, a run of non-whitespace characters is emitted as it stands
ClaimedTokens(line) ==
    LET caps == captures_iter(trim(line))
    IN  [k \in DOMAIN caps |->
            IF IsQuotedForm(caps[k])
            THEN SubSeq(caps[k], 2, Len(caps[k]) - 1)
            ELSE caps[k]]

\* C8 (as claimed): the tokens of a line are its maximal runs of
\* non-whitespace characters, unchanged, and its quoted spans without their
\* two enclosing quotes; no other character is dropped.
C8_TokensAsClaimed ==
    Dispatched => tokens = ClaimedTokens(sig.line)

\* a Parameter is not both required and defaulted
NotRequiredAndDefaulted(p) == ~(p.required /\ p.default.some)

\* C9: no Parameter is both required and defaulted: set_default on a
\* required parameter and set_required(true) on a defaulted one fail with
\* IllegalDefaultError naming the parameter.
C9_RequiredExcludesDefault ==
    /\ param.some => NotRequiredAndDefaulted(param.val)
    /\ cmd.some =>
        \A i \in DOMAIN cmd.val.parameters :
            NotRequiredAndDefaulted(cmd.val.parameters[i])
    /\ (built.op = "set_default" /\ built.recv.required)
        => built.res = Err(IllegalDefaultError(built.recv.name)) /\ param = None
    /\ (built.op = "set_required" /\ built.arg /\ built.recv.default.some)
        => built.res = Err(IllegalDefaultError(built.recv.name)) /\ param = None

\* set_default was called on a required parameter and failed
C9_Witness ==
    /\ built.op = "set_default"
    /\ built.recv.required
    /\ built.res = Err(IllegalDefaultError(built.recv.name))

\* all required parameters come before all others
RequiredFirst(ps) ==
    \A i, j \in DOMAIN ps : i < j /\ ~ps[i].required => ~ps[j].required

\* C10: a Command's parameter list is its required parameters followed by
\* the others: appending a required parameter after one that is not fails
\* with IllegalRequiredError naming the appended parameter, every other
\* append adds the parameter at the end.
C10_RequiredBeforeOptional ==
    /\ cmd.some => RequiredFirst(cmd.val.parameters)
    /\ built.op = "with_parameter" =>
        IF /\ built.arg.required
           /\ \E i \in DOMAIN built.recv.parameters :
                ~built.recv.parameters[i].required
        THEN built.res = Err(IllegalRequiredError(built.arg.name)) /\ cmd = None
        ELSE /\ built.res.ok
             /\ cmd = Some(built.res.val)
             /\ cmd.val.parameters = Append(built.recv.parameters, built.arg)
             /\ cmd.val.name = built.recv.name

\* a required parameter was appended after a defaulted one, and refused
C10_Witness ==
    /\ built.op = "with_parameter"
    /\ built.arg.required
    /\ Len(built.recv.parameters) >= 1
    /\ built.recv.parameters[1].default.some
    /\ built.res = Err(IllegalRequiredError(built.arg.name))

\* a dispatch to a registered name validates against the parameter list the
\* registry holds under that name and invokes the callback it holds there
DispatchUsesRegistry ==
    (Dispatched /\ tokens # <<>> /\ tokens[1] \in DOMAIN commands) =>
        LET definition == commands[tokens[1]]
            validated == validate_arguments(tokens[1], definition.parameters,
                                            Tail(tokens))
        IN  IF validated.ok
            THEN /\ Len(calls) = 1
                 /\ calls[1].callback = definition.callback
                 /\ calls[1].command = tokens[1]
                 /\ calls[1].args = validated.val
            ELSE /\ calls = <<>>
                 /\ result = Some(Err(validated.err))

\* C11: after every add_command the registry holds, under the name of the
\* command just registered, exactly that command (one command per name,
\* the last registered), and every other name holds what it held before;
\* registering a command the name already holds leaves the registry as it
\* was; the registry does not change once run has begun, and a dispatch to
\* a registered name validates against the parameter list held under that
\* name and invokes the callback held there, and no other.
C11_LastRegistrationWins ==
    /\ [](/\ \A n \in DOMAIN commands : commands[n].name = n
          /\ built.op = "add_command" =>
                /\ built.arg.name \in DOMAIN commands
                /\ commands[built.arg.name] = built.arg
          /\ DispatchUsesRegistry)
    /\ [][/\ built'.op = "add_command" =>
                /\ DOMAIN commands' = DOMAIN commands \cup {built'.arg.name}
                /\ \A n \in DOMAIN commands \ {built'.arg.name} :
                        commands'[n] = commands[n]
                /\ get(built'.arg.name) = Some(built'.arg)
                        => commands' = commands
          /\ pc # "Config" => commands' = commands]_vars

\* zed was registered again, with another callback, and the registry holds
\* the later command
C11_Witness ==
    /\ built.op = "add_command"
    /\ built.arg.name = zed
    /\ built.recv = Some("cb1")
    /\ built.arg.callback = "cb2"
    /\ commands[zed] = built.arg

\* s is before t in the lexical order of their characters' codes: at the
\* first position where they differ s has the lower code, or s ends there
LexLess(s, t) ==
    \E k \in 1..(Len(t)) :
        /\ k <= Len(s) + 1
        /\ \A i \in 1..(k - 1) : s[i] = t[i]
        /\ \/ k = Len(s) + 1
           \/ CharCode(s[k]) < CharCode(t[k])

\* C12: the entries of the help context run builds are in ascending order
\* of command name, by character code (an upper-case letter before every
\* lower-case one, a proper prefix before the longer name), whatever the
\* order of registration and of the registry's iteration.
C12_HelpEntriesAscending ==
    help_context.some =>
        LET entries == help_context.val.help_entries
        IN  \A i, j \in DOMAIN entries :
                i < j => LexLess(entries[i].command, entries[j].command)

\* all five names are registered and listed, Zed first, zed last
C12_Witness ==
    /\ help_context.some
    /\ DOMAIN commands = HelpNames
    /\ [i \in 1..5 |-> help_context.val.help_entries[i].command]
         = <<Zed, fo, foo, help, zed>>

\* the cycle went to the built-in help: the help viewer was called, or the
\* notice of a help entry not found was printed
BuiltinHelpReached ==
    \E i \in DOMAIN out :
        out[i].stream = "help_viewer" \/ out[i].what = "help_not_found"

\* C13: resolution is registry-first.  A cycle reaches the built-in help if
\* and only if its first token is help and no command named help is
\* registered; with a command named help registered, a line starting with
\* help is validated against that command's parameters (too many arguments
\* are refused in its name) and runs that command's callback, and the
\* built-in help is not reached.
C13_RegistryFirst ==
    (Dispatched /\ tokens # <<>>) =>
        /\ BuiltinHelpReached <=> (tokens[1] = help /\ help \notin DOMAIN commands)
        /\ (tokens[1] = help /\ help \in DOMAIN commands) =>
            IF NumArgs > Len(commands[help].parameters)
            THEN /\ calls = <<>>
                 /\ result = Some(Err(TooManyArguments(
                                help, Len(commands[help].parameters))))
            ELSE /\ Len(calls) = 1
                 /\ calls[1].command = help
                 /\ calls[1].callback = commands[help].callback

\* a command named help is registered, the line help ran its callback and
\* the built-in help stayed silent
C13_Witness ==
    /\ Dispatched
    /\ help \in DOMAIN commands
    /\ tokens = <<help>>
    /\ Len(calls) = 1
    /\ calls[1].command = help
    /\ ~BuiltinHelpReached

\* read_line returned CtrlC or CtrlD
Interrupted == sig.kind \in {"CtrlC", "CtrlD"}

\* C14: when read_line returns CtrlC or CtrlD the loop ends: run prints its
\* farewell and is at Quit, where it returns Ok; the signal's cycle builds no
\* tokens, calls no callback and yields no error, and from Quit there is no
\* further step: no line is read and no callback invoked after the signal.
C14_SignalQuits ==
    /\ [](Interrupted =>
            /\ pc \in {"Dispatching", "Quit"}
            /\ tokens = <<>>
            /\ calls = <<>>
            /\ result = None)
    /\ [](pc = "Quit" =>
            Interrupted /\ out = <<Printed("stdout", "quitting", Unit)>>)
    /\ Interrupted ~> (pc = "Quit")
    /\ [][pc # "Quit"]_vars

\* the loop had run a callback in an earlier cycle, then CtrlD ended it
C14_Witness ==
    /\ pc = "Quit"
    /\ sig = CtrlD
    /\ context = "ctx1"

\* the prompt the Repl is configured with: the one given to with_prompt if
\* there was one, else the name followed by "> "
ConfiguredPrompt ==
    IF custom_prompt THEN prompt ELSE green_bold(repl_name)

\* C15 (as claimed): at every read of a line run presents the configured
\* prompt: the prompt given to with_prompt if with_prompt was called, else
\* the latest name given to with_name followed by "> ".
C15_ConfiguredPromptShown ==
    /\ ~custom_prompt => prompt = green_bold(repl_name)
    /\ pc \in {"Reading", "Dispatching"} => shown = Some(ConfiguredPrompt)

\* the callback of the resolved command was called: validation succeeded
Validated == Resolved /\ Len(calls) = 1

\* the i-th declared parameter binds something: it has a token or a default
Binds(i) == i <= NumArgs \/ DeclaredParams[i].default.some

\* what the i-th declared parameter binds: its token, else its default
Bound(i) ==
    IF i <= NumArgs THEN tokens[i + 1] ELSE DeclaredParams[i].default.val

\* the mapping as the claim has it: every parameter with a token is bound to
\* it, every other one with a default to its default, an optional one with
\* neither has no entry, and there is no other key
BoundAsClaimed(m) ==
    /\ \A i \in DOMAIN DeclaredParams :
        IF Binds(i)
        THEN /\ DeclaredParams[i].name \in DOMAIN m
             /\ m[DeclaredParams[i].name] = Bound(i)
        ELSE DeclaredParams[i].name \notin DOMAIN m
    /\ DOMAIN m \subseteq {DeclaredParams[i].name : i \in DOMAIN DeclaredParams}

LastOfItsName(i) ==
    \A j \in DOMAIN DeclaredParams :
        (j > i /\ Binds(j)) => DeclaredParams[j].name # DeclaredParams[i].name

C17_HandlerValuePrintedOnce ==
    (Dispatched /\ calls # <<>> /\ calls[1].ret.ok) =>
        /\ Len(calls) = 1
        /\ out = IF calls[1].ret.val.some
                 THEN <<Printed("stdout", "value", calls[1].ret.val.val)>>
                 ELSE <<>>
        /\ result = Some(Ok(Unit))
        /\ pc = "Idle"

\* a callback returned Ok(Some("text")) and the cycle printed it
C17_Witness ==
    /\ Dispatched
    /\ Len(calls) = 1
    /\ calls[1].ret = Ok(Some("text"))
    /\ out = <<Printed("stdout", "value", "text")>>
    /\ pc = "Idle"

\* the cycle resolved its first token to the built-in help
BuiltinHelp ==
    Dispatched /\ tokens # <<>> /\ tokens[1] = help /\ help \notin DOMAIN commands

\* the entries of the help context whose command is the word w
EntriesOf(w) ==
    {i \in DOMAIN help_context.val.help_entries :
        help_context.val.help_entries[i].command = w}

\* C18: in the built-in help no callback is called.  Without arguments the
\* help viewer is handed the help context for the general help; with
\* arguments it is handed the entry whose command is the first argument, if
\* there is one, and the cycle yields what the viewer returns; if there is
\* none, the not-found notice naming the argument is printed, the cycle
\* yields Ok and the loop is back at Idle.
C18_BuiltinHelp ==
    BuiltinHelp =>
        /\ help_context.some
        /\ calls = <<>>
        /\ IF NumArgs = 0
           THEN /\ out = <<Printed("help_viewer", "help_general",
                                   help_context.val)>>
                /\ result \in {Some(r) : r \in ViewerReturns}
           ELSE IF EntriesOf(tokens[2]) # {}
           THEN /\ \E i \in EntriesOf(tokens[2]) :
                     out = <<Printed("help_viewer", "help_command",
                                     help_context.val.help_entries[i])>>
                /\ result \in {Some(r) : r \in ViewerReturns}
           ELSE /\ out = <<Printed("stderr", "help_not_found", tokens[2])>>
                /\ result = Some(Ok(Unit))
                /\ pc = "Idle"

\* help was asked for a word no command is registered under, while foo is
\* registered: the notice was printed and the loop goes on
C18_Witness ==
    /\ BuiltinHelp
    /\ foo \in DOMAIN commands
    /\ tokens = <<help, <<"a">> >>
    /\ out = <<Printed("stderr", "help_not_found", <<"a">>)>>
    /\ pc = "Idle"

\* C19: once run has begun, hence before the first line is read and in
\* every cycle, the help context is present and lists the registry: one
\* entry per registered command, under its name and with its parameters,
\* and no other entry; a cycle of the built-in help never panics on a
\* missing help context.
C19_HelpContextPresent ==
    pc # "Config" =>
        /\ help_context.some
        /\ LET entries == help_context.val.help_entries
           IN  /\ {entries[i].command : i \in DOMAIN entries} = DOMAIN commands
               /\ Len(entries) = Cardinality(DOMAIN commands)
               /\ \A i \in DOMAIN entries :
                    entries[i] = HelpEntry(commands[entries[i].command])
        /\ BuiltinHelp => result.some

\* the general help was asked of a Repl with two commands, and was handed
\* the help context with its two entries
C19_Witness ==
    /\ BuiltinHelp
    /\ tokens = <<help>>
    /\ DOMAIN commands = {foo, zed}
    /\ Len(help_context.val.help_entries) = 2
    /\ out = <<Printed("help_viewer", "help_general", help_context.val)>>

\* C20: a line with a character that is not whitespace yields at least one
\* token, be it the empty one left of a line of quote characters, so that
\* process_line has a first token to take and does not panic; no token at
\* all is what exactly the empty and the whitespace-only lines yield.
C20_NonBlankLineHasToken ==
    Dispatched =>
        /\ tokens = <<>> <=> IsBlank(sig.line)
        /\ result.some

\* the line of one quote character yields one token, the empty one, which is
\* looked up as a command name
C20_Witness ==
    /\ Dispatched
    /\ sig.line = <<QUOTE>>
    /\ tokens = << <<>> >>
    /\ result = Some(Err(UnknownCommand(<<>>)))

\* the cycle ended as a no-op of a blank line, in UnknownCommand, in
\* TooManyArguments, in MissingRequiredArgument, or in the built-in help
EndsWithoutHandler ==
    /\ Dispatched
    /\ \/ IsBlank(sig.line)
       \/ BuiltinHelp
       \/ /\ Failed
          /\ result.val.err.kind \in {"UnknownCommand", "TooManyArguments",
                                      "MissingRequiredArgument"}

\* the one callback of the cycle is that of the command the first token of
\* the line names, called after the arguments of the line passed validation
CalledAfterValidation ==
    /\ Resolved
    /\ tokens = tokenize(trim(sig.line))
    /\ calls[1].command = tokens[1]
    /\ calls[1].callback = commands[tokens[1]].callback
    /\ NumArgs <= Len(DeclaredParams)
    /\ MissingRequired = {}

\* C21: the context changes only in the step of a cycle that calls a
\* callback.  The step that dispatches a line leaves the registry as it
\* was and calls at most one callback, once; a cycle that ends as a no-op
\* of a blank line, in UnknownCommand, TooManyArguments or
\* MissingRequiredArgument, or in the built-in help calls none and leaves
\* the context as it was; a callback is called only for the command the
\* line's first token names and after the line's arguments were validated.
C21_ContextChangedOnlyByHandler ==
    /\ [](Dispatched =>
            /\ Len(calls) <= 1
            /\ EndsWithoutHandler => calls = <<>>
            /\ calls # <<>> => CalledAfterValidation)
    /\ [][/\ context' # context =>
               (pc = "Dispatching" /\ sig.kind = "Success" /\ calls' # <<>>)
          /\ (pc = "Dispatching" /\ sig.kind = "Success") =>
               commands' = commands]_vars

\* an earlier cycle's callback had changed the context; a later line with
\* too many arguments was refused, no callback was called and the context
\* is still the changed one
C21_Witness ==
    /\ EndsWithoutHandler
    /\ Failed
    /\ result.val.err.kind = "TooManyArguments"
    /\ calls = <<>>
    /\ context = "ctx1"

====
